---- MODULE Spec2Model ----
(***************************************************************************)
(* TaxiScheduler: the vehicle registry (TaxiStore), the nearest-taxi       *)
(* assignment (TaxiAssigner), the rate-limited scheduler loop with its     *)
(* ride-completion goroutines (RideScheduler) and the API gateway          *)
(* (Server.RequestRide / Server.Shutdown), as one state machine.           *)
(*                                                                         *)
(* Every lock-protected critical section of the source is one atomic step; *)
(* the steps of one goroutine are ordered by its program counter, the      *)
(* steps of different goroutines interleave freely.                        *)
(***************************************************************************)
EXTENDS Integers, Sequences, FiniteSets, TLC

(***************************************************************************)
(* Bounds of the model.                                                    *)
(***************************************************************************)
MaxTaxis == 2

MaxRequests == 2

QueueCap == 1

MaxShutdowns == 2

\* Last instant of the clock, in seconds.
MaxTime == 7

\* Largest number of requests already in the channel when the loop starts.
BurstSize == 2

\* Largest absolute value of a coordinate passed to CalculateDistance.
GridMax == 4

(***************************************************************************)
(* types.go                                                                *)
(***************************************************************************)
CREATED == 0

ASSIGNED == 1

IN_PROGRESS == 2

FINISHED == 3

Loc(x, y) == [X |-> x, Y |-> y]

\* The points of the grid that registrations and requests draw from.
TaxiLocations == {Loc(0, 0), Loc(10, 10)}

PickupLocations == {Loc(1, 1)}

DropoffLocations == {Loc(0, 0), Loc(10, 10)}

\* The callers of Server.RequestRide: main starts one UserClient.
Clients == {"userClient"}

VARIABLES
    taxis,            \* TaxiStore.taxis: taxi ID -> [Location, IsAvailable]
    nextID,           \* TaxiStore.nextID
    rideRequests,     \* the buffered channel Server.rideRequests
    closed,           \* whether close(rideRequests) has happened
    shutdown,         \* Server.shutdown
    tickC,            \* whether ticker.C holds a buffered tick
    rides,            \* every Ride created so far, by ride ID
    nextRideID,       \* RideScheduler.nextRideID
    handlers,         \* the completion goroutine of each ride, by ride ID
    spc,              \* position of the scheduler goroutine
    request,          \* Start: the request received from the channel
    rideID,           \* processRequest: the ID of the ride being processed
    availableTaxis,   \* AssignClosestTaxi: the snapshot (taxi IDs, i.e. pointers)
    scanIdx,          \* AssignClosestTaxi: position of the range loop
    closestTaxi,      \* AssignClosestTaxi: closestTaxi (0 is nil)
    closestDistance,  \* AssignClosestTaxi: closestDistance
    duration,         \* processRequest: duration
    cpc,              \* each caller of RequestRide: in the call ("send") or not ("idle",
                      \* or the result of its last call: "accepted" is true, "rejected" false)
    creq,             \* RequestRide: the request built by each caller
    nextClientID,     \* the client ID the next RequestRide call carries
    accepted,         \* client IDs for which RequestRide returned true
    sdpc,             \* position of the caller of Shutdown
    sdCalls,          \* number of Shutdown calls started
    panicked,         \* the unrecovered panic that ended the process, if any
    now,              \* the clock, in seconds since the ticker was created
    lastTick,         \* the instant of the ticker's last tick
    processedAt,      \* per ride, the instant processRequest was entered
    startedAt,        \* per ride, the instant its goroutine began to sleep (-1: not yet)
    acceptedAt,       \* per accepted request, the instant of the channel send
    call              \* the last direct call of a TaxiStore method and its result

vars == <<taxis, nextID, rideRequests, closed, shutdown, tickC, rides,
          nextRideID, handlers, spc, request, rideID, availableTaxis,
          scanIdx, closestTaxi, closestDistance, duration, cpc, creq,
          nextClientID, accepted, sdpc, sdCalls, panicked,
          now, lastTick, processedAt, startedAt, acceptedAt, call>>

storeVars == <<taxis, nextID>>

chanVars == <<rideRequests, closed, shutdown>>

schedVars == <<spc, request, rideID, availableTaxis, scanIdx, closestTaxi,
               closestDistance, duration>>

rideVars == <<rides, nextRideID, handlers>>

clientVars == <<cpc, creq, nextClientID, accepted>>

sdVars == <<sdpc, sdCalls>>

timeVars == <<now, lastTick, processedAt, startedAt, acceptedAt>>

\* What the untimed steps of the server leave alone.
auxVars == <<timeVars, call>>

\* Everything but the store, the clock and the call record.
serverVars == <<chanVars, tickC, rideVars, schedVars, clientVars, sdVars, panicked>>

NoCall == [op |-> "none"]

NoRequest == [ClientID |-> 0, StartLocation |-> Loc(0, 0), EndLocation |-> Loc(0, 0)]

NoPanic == "none"

Running == panicked = NoPanic

(***************************************************************************)
(* location.go                                                             *)
(***************************************************************************)
\* CalculateDistance without the absolute value of the Y difference.
CalculateDistanceSignedY(from, to) ==
    LET xDist == from.X - to.X
        yDist == from.Y - to.Y
        xAbs == IF xDist < 0 THEN -xDist ELSE xDist
    IN  xAbs + yDist

\* LocationService.CalculateDistance
CalculateDistance(from, to) ==
    LET xDist == from.X - to.X
        yDist == from.Y - to.Y
        xAbs == IF xDist < 0 THEN -xDist ELSE xDist
        yAbs == IF yDist < 0 THEN -yDist ELSE yDist
    IN  xAbs + yAbs

(***************************************************************************)
(* store.go                                                                *)
(***************************************************************************)
\* Add that inserts the taxi as unavailable.
AddUnavailable(store, id, location) ==
    [i \in (DOMAIN store) \cup {id} |->
        IF i = id THEN [Location |-> location, IsAvailable |-> FALSE]
        ELSE store[i]]

\* TaxiStore.Add: the store after inserting a taxi at location.
Add(store, id, location) ==
    [i \in (DOMAIN store) \cup {id} |->
        IF i = id THEN [Location |-> location, IsAvailable |-> TRUE]
        ELSE store[i]]

\* GetAllAvailable without the IsAvailable test.
GetAllAvailableIgnoresFlag(store) == DOMAIN store

\* TaxiStore.GetAllAvailable: the taxis whose IsAvailable is set.
GetAllAvailable(store) == {id \in DOMAIN store : store[id].IsAvailable}

\* taxi, exists := ts.taxis[id]
exists(store, id) == id \in DOMAIN store

\* SetAvailability that stores a fresh available taxi under an unknown id.
SetAvailabilityCreates(store, id, available) ==
    IF id \in DOMAIN store
    THEN [store EXCEPT ![id].IsAvailable = available]
    ELSE Add(store, id, Loc(0, 0))

\* SetAvailability that marks the taxi available whatever the argument.
SetAvailabilityIgnoresValue(store, id, available) ==
    IF id \in DOMAIN store
    THEN [store EXCEPT ![id].IsAvailable = TRUE]
    ELSE store

\* TaxiStore.SetAvailability: the store afterwards (unchanged if id is unknown).
SetAvailability(store, id, available) ==
    IF id \in DOMAIN store
    THEN [store EXCEPT ![id].IsAvailable = available]
    ELSE store

\* UpdateLocation that stores a fresh Taxi record, as Add does.
UpdateLocationResetsTaxi(store, id, location) ==
    IF id \in DOMAIN store
    THEN [store EXCEPT ![id] = [Location |-> location, IsAvailable |-> TRUE]]
    ELSE store

\* TaxiStore.UpdateLocation: the store afterwards (unchanged if id is unknown).
UpdateLocation(store, id, location) ==
    IF id \in DOMAIN store
    THEN [store EXCEPT ![id].Location = location]
    ELSE store

\* TaxiStore.Count
Count(store) == Cardinality(DOMAIN store)

\* The orders in which a range over the map can deliver the set S.
Orders(S) ==
    {s \in [1..Cardinality(S) -> S] : \A i, j \in 1..Cardinality(S) : s[i] = s[j] => i = j}

Init ==
    /\ taxis = <<>>
    /\ nextID = 1
    /\ rideRequests = <<>>
    /\ closed = FALSE
    /\ shutdown = FALSE
    /\ tickC = FALSE
    /\ rides = <<>>
    /\ nextRideID = 1
    /\ handlers = <<>>
    /\ spc = "recv"
    /\ request = NoRequest
    /\ rideID = 0
    /\ availableTaxis = <<>>
    /\ scanIdx = 0
    /\ closestTaxi = 0
    /\ closestDistance = -1
    /\ duration = 0
    /\ cpc = [c \in Clients |-> "idle"]
    /\ creq = [c \in Clients |-> NoRequest]
    /\ nextClientID = 1
    /\ accepted = {}
    /\ sdpc = "idle"
    /\ sdCalls = 0
    /\ panicked = NoPanic
    /\ now = 0
    /\ lastTick = 0
    /\ processedAt = <<>>
    /\ startedAt = <<>>
    /\ acceptedAt = <<>>
    /\ call = NoCall

(***************************************************************************)
(* server.go                                                               *)
(***************************************************************************)
\* Add without ts.nextID++.
RegisterTaxiKeepsNextID ==
    /\ Running
    /\ nextID <= MaxTaxis
    /\ \E location \in TaxiLocations :
          taxis' = Add(taxis, nextID, location)
    /\ UNCHANGED <<nextID, chanVars, tickC, rideVars, schedVars, clientVars, sdVars, panicked>>

\* Server.RegisterTaxi -> TaxiManager.CreateTaxi -> TaxiStore.Add
RegisterTaxi ==
    /\ Running
    /\ nextID <= MaxTaxis
    /\ \E location \in TaxiLocations :
          taxis' = Add(taxis, nextID, location)
    /\ nextID' = nextID + 1
    /\ UNCHANGED <<chanVars, tickC, rideVars, schedVars, clientVars, sdVars, panicked>>

\* Server.GetTaxiCount
GetTaxiCount == Count(taxis)

\* Server.GetAvailableTaxiCount: len(s.taxiStore.GetAllAvailable())
GetAvailableTaxiCount == Cardinality(GetAllAvailable(taxis))

\* Server.RequestRide, first critical section: the shutdown check.
RequestRideCheck(c) ==
    /\ Running
    /\ cpc[c] \in {"idle", "accepted", "rejected"}
    /\ nextClientID <= MaxRequests
    /\ \E startLocation \in PickupLocations, endLocation \in DropoffLocations :
          IF shutdown
          THEN /\ cpc' = [cpc EXCEPT ![c] = "rejected"]
               /\ creq' = creq
          ELSE /\ cpc' = [cpc EXCEPT ![c] = "send"]
               /\ creq' = [creq EXCEPT ![c] =
                              [ClientID |-> nextClientID,
                               StartLocation |-> startLocation,
                               EndLocation |-> endLocation]]
    /\ nextClientID' = nextClientID + 1
    /\ UNCHANGED <<storeVars, chanVars, tickC, rideVars, schedVars, accepted, sdVars, panicked>>

\* RequestRide with a non-blocking send: a full buffer is reported as false.
RequestRideSendFailsFast(c) ==
    /\ Running
    /\ cpc[c] = "send"
    /\ IF closed
       THEN /\ panicked' = "send on closed channel"
            /\ UNCHANGED <<rideRequests, cpc, creq, accepted>>
       ELSE /\ IF Len(rideRequests) < QueueCap
               THEN /\ rideRequests' = Append(rideRequests, creq[c])
                    /\ cpc' = [cpc EXCEPT ![c] = "accepted"]
                    /\ accepted' = accepted \cup {creq[c].ClientID}
               ELSE /\ cpc' = [cpc EXCEPT ![c] = "rejected"]
                    /\ UNCHANGED <<rideRequests, accepted>>
            /\ creq' = [creq EXCEPT ![c] = NoRequest]
            /\ UNCHANGED panicked
    /\ UNCHANGED <<storeVars, closed, shutdown, tickC, rideVars, schedVars, nextClientID, sdVars>>

\* Server.RequestRide, the channel send and the return of true.  The send
\* blocks while the buffer is full and panics on a closed channel.
RequestRideSend(c) ==
    /\ Running
    /\ cpc[c] = "send"
    /\ IF closed
       THEN /\ panicked' = "send on closed channel"
            /\ UNCHANGED <<rideRequests, cpc, creq, accepted>>
       ELSE /\ Len(rideRequests) < QueueCap
            /\ rideRequests' = Append(rideRequests, creq[c])
            /\ cpc' = [cpc EXCEPT ![c] = "accepted"]
            /\ creq' = [creq EXCEPT ![c] = NoRequest]
            /\ accepted' = accepted \cup {creq[c].ClientID}
            /\ UNCHANGED panicked
    /\ UNCHANGED <<storeVars, closed, shutdown, tickC, rideVars, schedVars, nextClientID, sdVars>>

\* Shutdown that closes the channel without setting the flag.
ShutdownSetFlagForgets ==
    /\ Running
    /\ sdpc \in {"idle", "returned"}
    /\ sdCalls < MaxShutdowns
    /\ sdpc' = "close"
    /\ sdCalls' = sdCalls + 1
    /\ UNCHANGED <<storeVars, chanVars, tickC, rideVars, schedVars, clientVars, panicked>>

\* Server.Shutdown, critical section: set the flag.
ShutdownSetFlag ==
    /\ Running
    /\ sdpc \in {"idle", "returned"}
    /\ sdCalls < MaxShutdowns
    /\ shutdown' = TRUE
    /\ sdpc' = "close"
    /\ sdCalls' = sdCalls + 1
    /\ UNCHANGED <<storeVars, rideRequests, closed, tickC, rideVars, schedVars, clientVars, panicked>>

\* Server.Shutdown, close(s.rideRequests): closing a closed channel panics.
ShutdownClose ==
    /\ Running
    /\ sdpc = "close"
    /\ IF closed
       THEN /\ panicked' = "close of closed channel"
            /\ UNCHANGED <<closed, sdpc>>
       ELSE /\ closed' = TRUE
            /\ sdpc' = "returned"
            /\ UNCHANGED panicked
    /\ UNCHANGED <<storeVars, rideRequests, shutdown, tickC, rideVars, schedVars, clientVars, sdCalls>>

(***************************************************************************)
(* assigner.go                                                             *)
(***************************************************************************)
\* CalculateRideDuration without the way to the pickup point.
CalculateRideDurationRideOnly(taxi, ride) ==
    CalculateDistance(ride.StartLocation, ride.EndLocation)

\* TaxiAssigner.CalculateRideDuration
CalculateRideDuration(taxi, ride) ==
    LET pickupDistance == CalculateDistance(taxi.Location, ride.StartLocation)
        rideDistance == CalculateDistance(ride.StartLocation, ride.EndLocation)
    IN  pickupDistance + rideDistance

\* The comparison of the scan loop with > for <.
IsCloserReversed(distance, closest) == closest = -1 \/ distance > closest

\* The comparison of the scan loop: does a taxi at this distance replace the
\* closest one found so far?
IsCloser(distance, closest) == closest = -1 \/ distance < closest

\* The locals of processRequest and AssignClosestTaxi go out of scope.
ProcessRequestReturns ==
    /\ spc' = "recv"
    /\ request' = NoRequest
    /\ rideID' = 0
    /\ availableTaxis' = <<>>
    /\ scanIdx' = 0
    /\ closestTaxi' = 0
    /\ closestDistance' = -1
    /\ duration' = 0

(***************************************************************************)
(* scheduler.go                                                            *)
(***************************************************************************)
\* The ticker delivers a tick into ticker.C, which buffers one tick; a tick
\* that finds the buffer full is dropped.
TickerFire ==
    /\ Running
    /\ spc # "stopped"
    /\ ~tickC
    /\ tickC' = TRUE
    /\ UNCHANGED <<storeVars, chanVars, rideVars, schedVars, clientVars, sdVars, panicked>>

\* A receive that leaves the request in the channel.
StartReceiveKeepsHead ==
    /\ Running
    /\ spc = "recv"
    /\ IF Len(rideRequests) > 0
       THEN /\ request' = Head(rideRequests)
            /\ spc' = "tick"
       ELSE /\ closed
            /\ spc' = "stopped"
            /\ UNCHANGED request
    /\ UNCHANGED <<storeVars, chanVars, tickC, rideVars, rideID, availableTaxis,
                   scanIdx, closestTaxi, closestDistance, duration, clientVars, sdVars,
                   panicked>>

\* A receive that takes the newest request of the channel.
StartReceiveTakesLast ==
    /\ Running
    /\ spc = "recv"
    /\ IF Len(rideRequests) > 0
       THEN /\ request' = rideRequests[Len(rideRequests)]
            /\ rideRequests' = SubSeq(rideRequests, 1, Len(rideRequests) - 1)
            /\ spc' = "tick"
       ELSE /\ closed
            /\ spc' = "stopped"
            /\ UNCHANGED <<request, rideRequests>>
    /\ UNCHANGED <<storeVars, closed, shutdown, tickC, rideVars, rideID, availableTaxis,
                   scanIdx, closestTaxi, closestDistance, duration, clientVars, sdVars,
                   panicked>>

\* RideScheduler.Start: for request := range rs.rideRequests
StartReceive ==
    /\ Running
    /\ spc = "recv"
    /\ IF Len(rideRequests) > 0
       THEN /\ request' = Head(rideRequests)
            /\ rideRequests' = Tail(rideRequests)
            /\ spc' = "tick"
       ELSE /\ closed
            /\ spc' = "stopped"
            /\ UNCHANGED <<request, rideRequests>>
    /\ UNCHANGED <<storeVars, closed, shutdown, tickC, rideVars, rideID, availableTaxis,
                   scanIdx, closestTaxi, closestDistance, duration, clientVars, sdVars,
                   panicked>>

\* RideScheduler.Start: <-ticker.C, then processRequest up to the new ride:
\* the next ride ID under rs.mu and the Ride in CREATED.
ProcessRequestCreate ==
    /\ Running
    /\ spc = "tick"
    /\ tickC
    /\ tickC' = FALSE
    /\ rideID' = nextRideID
    /\ nextRideID' = nextRideID + 1
    /\ rides' = Append(rides, [ID |-> nextRideID,
                               ClientID |-> request.ClientID,
                               TaxiID |-> 0,
                               StartLocation |-> request.StartLocation,
                               EndLocation |-> request.EndLocation,
                               Status |-> CREATED])
    /\ handlers' = Append(handlers, [pc |-> "none", taxi |-> 0, d |-> 0])
    /\ spc' = "assign"
    /\ UNCHANGED <<storeVars, chanVars, request, availableTaxis, scanIdx, closestTaxi,
                   closestDistance, duration, clientVars, sdVars, panicked>>

\* AssignClosestTaxi that puts the request back when there is no taxi.
AssignSnapshotRequeues ==
    /\ Running
    /\ spc = "assign"
    /\ \E order \in Orders(GetAllAvailable(taxis)) :
          IF Len(order) = 0
          THEN /\ ProcessRequestReturns
               /\ rideRequests' = Append(rideRequests, request)
          ELSE /\ availableTaxis' = order
               /\ scanIdx' = 1
               /\ closestTaxi' = 0
               /\ closestDistance' = -1
               /\ spc' = "scan"
               /\ UNCHANGED <<request, rideID, duration, rideRequests>>
    /\ UNCHANGED <<storeVars, closed, shutdown, tickC, rideVars, clientVars, sdVars, panicked>>

\* AssignClosestTaxi that takes every registered taxi into its snapshot.
AssignSnapshotAllTaxis ==
    /\ Running
    /\ spc = "assign"
    /\ \E order \in Orders(DOMAIN taxis) :
          IF Len(order) = 0
          THEN ProcessRequestReturns
          ELSE /\ availableTaxis' = order
               /\ scanIdx' = 1
               /\ closestTaxi' = 0
               /\ closestDistance' = -1
               /\ spc' = "scan"
               /\ UNCHANGED <<request, rideID, duration>>
    /\ UNCHANGED <<storeVars, chanVars, tickC, rideVars, clientVars, sdVars, panicked>>

\* TaxiAssigner.AssignClosestTaxi: the snapshot and the test for no taxi.
AssignSnapshot ==
    /\ Running
    /\ spc = "assign"
    /\ \E order \in Orders(GetAllAvailable(taxis)) :
          IF Len(order) = 0
          THEN ProcessRequestReturns
          ELSE /\ availableTaxis' = order
               /\ scanIdx' = 1
               /\ closestTaxi' = 0
               /\ closestDistance' = -1
               /\ spc' = "scan"
               /\ UNCHANGED <<request, rideID, duration>>
    /\ UNCHANGED <<storeVars, chanVars, tickC, rideVars, clientVars, sdVars, panicked>>

\* TaxiAssigner.AssignClosestTaxi: one iteration of the scan loop.  The taxi
\* is read through the pointer of the snapshot, so its location is the
\* store's current one.
AssignScan ==
    /\ Running
    /\ spc = "scan"
    /\ LET taxi == availableTaxis[scanIdx]
           distance == CalculateDistance(taxis[taxi].Location, rides[rideID].StartLocation)
       IN  IF IsCloser(distance, closestDistance)
           THEN /\ closestDistance' = distance
                /\ closestTaxi' = taxi
           ELSE UNCHANGED <<closestDistance, closestTaxi>>
    /\ IF scanIdx < Len(availableTaxis)
       THEN /\ scanIdx' = scanIdx + 1
            /\ UNCHANGED spc
       ELSE /\ spc' = "reserve"
            /\ UNCHANGED scanIdx
    /\ UNCHANGED <<storeVars, chanVars, tickC, rideVars, request, rideID, availableTaxis,
                   duration, clientVars, sdVars, panicked>>

\* AssignClosestTaxi that goes on without marking the taxi unavailable.
AssignReserveKeepsAvailable ==
    /\ Running
    /\ spc = "reserve"
    /\ IF closestTaxi \in DOMAIN taxis
       THEN /\ spc' = "setride"
            /\ UNCHANGED <<request, rideID, availableTaxis, scanIdx, closestTaxi,
                           closestDistance, duration>>
       ELSE ProcessRequestReturns
    /\ UNCHANGED <<storeVars, chanVars, tickC, rideVars, clientVars, sdVars, panicked>>

\* TaxiAssigner.AssignClosestTaxi: SetAvailability(closestTaxi.ID, false).
AssignReserve ==
    /\ Running
    /\ spc = "reserve"
    /\ IF closestTaxi \in DOMAIN taxis
       THEN /\ taxis' = SetAvailability(taxis, closestTaxi, FALSE)
            /\ spc' = "setride"
            /\ UNCHANGED <<request, rideID, availableTaxis, scanIdx, closestTaxi,
                           closestDistance, duration>>
       ELSE /\ ProcessRequestReturns
            /\ UNCHANGED taxis
    /\ UNCHANGED <<nextID, chanVars, tickC, rideVars, clientVars, sdVars, panicked>>

\* AssignClosestTaxi that sets ASSIGNED without the taxi ID.
AssignSetRideStatusOnly ==
    /\ Running
    /\ spc = "setride"
    /\ rides' = [rides EXCEPT ![rideID].Status = ASSIGNED]
    /\ spc' = "duration"
    /\ UNCHANGED <<storeVars, chanVars, tickC, nextRideID, handlers, request, rideID,
                   availableTaxis, scanIdx, closestTaxi, closestDistance, duration,
                   clientVars, sdVars, panicked>>

\* TaxiAssigner.AssignClosestTaxi: under ride.mu, set TaxiID and ASSIGNED.
AssignSetRide ==
    /\ Running
    /\ spc = "setride"
    /\ rides' = [rides EXCEPT ![rideID].TaxiID = closestTaxi,
                              ![rideID].Status = ASSIGNED]
    /\ spc' = "duration"
    /\ UNCHANGED <<storeVars, chanVars, tickC, nextRideID, handlers, request, rideID,
                   availableTaxis, scanIdx, closestTaxi, closestDistance, duration,
                   clientVars, sdVars, panicked>>

\* RideScheduler.processRequest: duration of the ride with the returned taxi.
ProcessRequestDuration ==
    /\ Running
    /\ spc = "duration"
    /\ duration' = CalculateRideDuration(taxis[closestTaxi], rides[rideID])
    /\ spc' = "start"
    /\ UNCHANGED <<storeVars, chanVars, tickC, rideVars, request, rideID, availableTaxis,
                   scanIdx, closestTaxi, closestDistance, clientVars, sdVars, panicked>>

\* startRide that starts the goroutine without setting IN_PROGRESS.
StartRideSkipsInProgress ==
    /\ Running
    /\ spc = "start"
    /\ handlers' = [handlers EXCEPT ![rideID] =
                       [pc |-> "sleep", taxi |-> closestTaxi, d |-> duration]]
    /\ ProcessRequestReturns
    /\ UNCHANGED <<storeVars, chanVars, tickC, rides, nextRideID, clientVars, sdVars, panicked>>

\* RideScheduler.startRide: IN_PROGRESS under ride.mu, then the goroutine.
StartRide ==
    /\ Running
    /\ spc = "start"
    /\ rides' = [rides EXCEPT ![rideID].Status = IN_PROGRESS]
    /\ handlers' = [handlers EXCEPT ![rideID] =
                       [pc |-> "sleep", taxi |-> closestTaxi, d |-> duration]]
    /\ ProcessRequestReturns
    /\ UNCHANGED <<storeVars, chanVars, tickC, nextRideID, clientVars, sdVars, panicked>>

\* endRide that marks the taxi available together with FINISHED, before the
\* taxi is moved.
EndRideFinishFreesFirst(r) ==
    /\ Running
    /\ handlers[r].pc = "sleep"
    /\ rides' = [rides EXCEPT ![r].Status = FINISHED]
    /\ taxis' = SetAvailability(taxis, handlers[r].taxi, TRUE)
    /\ handlers' = [handlers EXCEPT ![r].pc = "relocate"]
    /\ UNCHANGED <<nextID, chanVars, tickC, nextRideID, schedVars, clientVars, sdVars,
                   panicked>>

\* RideScheduler.endRide: the sleep is over; FINISHED under ride.mu.
EndRideFinish(r) ==
    /\ Running
    /\ handlers[r].pc = "sleep"
    /\ rides' = [rides EXCEPT ![r].Status = FINISHED]
    /\ handlers' = [handlers EXCEPT ![r].pc = "relocate"]
    /\ UNCHANGED <<storeVars, chanVars, tickC, nextRideID, schedVars, clientVars, sdVars,
                   panicked>>

\* endRide that moves the taxi to the pickup point of the ride.
EndRideRelocateToPickup(r) ==
    /\ Running
    /\ handlers[r].pc = "relocate"
    /\ taxis' = UpdateLocation(taxis, handlers[r].taxi, rides[r].StartLocation)
    /\ handlers' = [handlers EXCEPT ![r].pc = "free"]
    /\ UNCHANGED <<nextID, chanVars, tickC, rides, nextRideID, schedVars, clientVars,
                   sdVars, panicked>>

\* RideScheduler.endRide: UpdateLocation(taxi.ID, ride.EndLocation).
EndRideRelocate(r) ==
    /\ Running
    /\ handlers[r].pc = "relocate"
    /\ taxis' = UpdateLocation(taxis, handlers[r].taxi, rides[r].EndLocation)
    /\ handlers' = [handlers EXCEPT ![r].pc = "free"]
    /\ UNCHANGED <<nextID, chanVars, tickC, rides, nextRideID, schedVars, clientVars,
                   sdVars, panicked>>

\* RideScheduler.endRide: SetAvailability(taxi.ID, true).
EndRideFree(r) ==
    /\ Running
    /\ handlers[r].pc = "free"
    /\ taxis' = SetAvailability(taxis, handlers[r].taxi, TRUE)
    /\ handlers' = [handlers EXCEPT ![r].pc = "done"]
    /\ UNCHANGED <<nextID, chanVars, tickC, rides, nextRideID, schedVars, clientVars,
                   sdVars, panicked>>

Next ==
    \/ RegisterTaxi /\ UNCHANGED auxVars
    \/ \E c \in Clients : RequestRideCheck(c) /\ UNCHANGED auxVars
    \/ \E c \in Clients : RequestRideSend(c) /\ UNCHANGED auxVars
    \/ ShutdownSetFlag /\ UNCHANGED auxVars
    \/ ShutdownClose /\ UNCHANGED auxVars
    \/ TickerFire /\ UNCHANGED auxVars
    \/ StartReceive /\ UNCHANGED auxVars
    \/ ProcessRequestCreate /\ UNCHANGED auxVars
    \/ AssignSnapshot /\ UNCHANGED auxVars
    \/ AssignScan /\ UNCHANGED auxVars
    \/ AssignReserve /\ UNCHANGED auxVars
    \/ AssignSetRide /\ UNCHANGED auxVars
    \/ ProcessRequestDuration /\ UNCHANGED auxVars
    \/ StartRide /\ UNCHANGED auxVars
    \/ \E r \in DOMAIN handlers : EndRideFinish(r) /\ UNCHANGED auxVars
    \/ \E r \in DOMAIN handlers : EndRideRelocate(r) /\ UNCHANGED auxVars
    \/ \E r \in DOMAIN handlers : EndRideFree(r) /\ UNCHANGED auxVars

Spec == Init /\ [][Next]_vars

(***************************************************************************)
(* The scheduler loop against the clock.  now counts the whole seconds     *)
(* since NewTicker; the ticker fires exactly every TickInterval seconds,   *)
(* every other step may happen at its instant or any time later.           *)
(***************************************************************************)
\* time.NewTicker(3 * time.Second)
TickInterval == 3

\* time.Sleep(time.Duration(d) * 100 * time.Millisecond): the whole seconds
\* that have passed for certain when the sleep of d units is over.
SleepSeconds(d) == (d * 100) \div 1000

\* The requests a caller can have sent.
Requests ==
    [ClientID : {0}, StartLocation : PickupLocations, EndLocation : DropoffLocations]

\* The loop starts with n requests already in the channel, sent in the order
\* of their client IDs, and with m taxis registered.
InitBurst ==
    /\ \E n \in 0..BurstSize :
        /\ \E q \in [1..n -> Requests] :
              rideRequests = [k \in 1..n |-> [q[k] EXCEPT !.ClientID = k]]
        /\ nextClientID = n + 1
        /\ accepted = 1..n
        /\ acceptedAt = [k \in 1..n |-> 0]
    /\ \E m \in 1..MaxTaxis :
        /\ \E l \in [1..m -> TaxiLocations] :
              taxis = [v \in 1..m |-> [Location |-> l[v], IsAvailable |-> TRUE]]
        /\ nextID = m + 1
    /\ closed = FALSE
    /\ shutdown = FALSE
    /\ tickC = FALSE
    /\ rides = <<>>
    /\ nextRideID = 1
    /\ handlers = <<>>
    /\ spc = "recv"
    /\ request = NoRequest
    /\ rideID = 0
    /\ availableTaxis = <<>>
    /\ scanIdx = 0
    /\ closestTaxi = 0
    /\ closestDistance = -1
    /\ duration = 0
    /\ cpc = [c \in Clients |-> "idle"]
    /\ creq = [c \in Clients |-> NoRequest]
    /\ sdpc = "idle"
    /\ sdCalls = 0
    /\ panicked = NoPanic
    /\ now = 0
    /\ lastTick = 0
    /\ processedAt = <<>>
    /\ startedAt = <<>>
    /\ call = NoCall

\* A ticker that delivers a tick at any instant.
TimedTickerFireAnyTime ==
    /\ Running
    /\ spc # "stopped"
    /\ now > lastTick
    /\ tickC' = TRUE
    /\ lastTick' = now
    /\ UNCHANGED <<storeVars, chanVars, rideVars, schedVars, clientVars, sdVars, panicked,
                   now, processedAt, startedAt, acceptedAt, call>>

\* The ticker fires TickInterval after its last tick.  ticker.C buffers one
\* tick: a tick that finds one buffered is dropped.
TimedTickerFire ==
    /\ Running
    /\ spc # "stopped"
    /\ now = lastTick + TickInterval
    /\ tickC' = TRUE
    /\ lastTick' = now
    /\ UNCHANGED <<storeVars, chanVars, rideVars, schedVars, clientVars, sdVars, panicked,
                   now, processedAt, startedAt, acceptedAt, call>>

\* One second passes, but never past an instant at which the ticker fires.
Advance ==
    /\ Running
    /\ now < MaxTime
    /\ spc = "stopped" \/ now < lastTick + TickInterval
    /\ now' = now + 1
    /\ UNCHANGED <<storeVars, serverVars, lastTick, processedAt, startedAt, acceptedAt, call>>

\* The channel send, with its instant.
TimedRequestRideSend(c) ==
    /\ RequestRideSend(c)
    /\ acceptedAt' = IF accepted' # accepted THEN Append(acceptedAt, now) ELSE acceptedAt
    /\ UNCHANGED <<now, lastTick, processedAt, startedAt, call>>

\* <-ticker.C and the entry of processRequest, with its instant.
TimedProcessRequestCreate ==
    /\ ProcessRequestCreate
    /\ processedAt' = Append(processedAt, now)
    /\ startedAt' = Append(startedAt, -1)
    /\ UNCHANGED <<now, lastTick, acceptedAt, call>>

\* startRide: the goroutine begins its sleep at this instant.
TimedStartRide ==
    /\ StartRide
    /\ startedAt' = [startedAt EXCEPT ![rideID] = now]
    /\ UNCHANGED <<now, lastTick, processedAt, acceptedAt, call>>

\* A goroutine that calls endRide without sleeping.
TimedEndRideFinishNoSleep(r) ==
    /\ EndRideFinish(r)
    /\ UNCHANGED auxVars

\* endRide runs when the sleep of the goroutine is over.
TimedEndRideFinish(r) ==
    /\ now >= startedAt[r] + SleepSeconds(handlers[r].d)
    /\ EndRideFinish(r)
    /\ UNCHANGED auxVars

\* The steps that take no time of their own and record no instant.
Untimed ==
    \/ StartReceive
    \/ AssignSnapshot
    \/ AssignScan
    \/ AssignReserve
    \/ AssignSetRide
    \/ ProcessRequestDuration
    \/ \E r \in DOMAIN handlers : EndRideRelocate(r)
    \/ \E r \in DOMAIN handlers : EndRideFree(r)

\* The loop works off the burst; nobody calls the server meanwhile.
NextBurst ==
    \/ Untimed /\ UNCHANGED auxVars
    \/ TimedTickerFire
    \/ TimedProcessRequestCreate
    \/ TimedStartRide
    \/ \E r \in DOMAIN handlers : TimedEndRideFinish(r)
    \/ Advance

SpecBurst == InitBurst /\ [][NextBurst]_vars

\* The scheduler goroutine waits in the range over the channel, in <-ticker.C,
\* or has returned.
SchedulerBlocked ==
    \/ spc = "stopped"
    \/ spc = "recv" /\ rideRequests = <<>>
    \/ spc = "tick" /\ ~tickC

\* Time passes only while the scheduler goroutine waits: the goroutine is
\* never late.
AdvancePrompt ==
    /\ SchedulerBlocked
    /\ Advance

\* Requests arrive at any instant and the loop handles them without delay.
NextPrompt ==
    \/ (\E c \in Clients : RequestRideCheck(c)) /\ UNCHANGED auxVars
    \/ \E c \in Clients : TimedRequestRideSend(c)
    \/ Untimed /\ UNCHANGED auxVars
    \/ TimedTickerFire
    \/ TimedProcessRequestCreate
    \/ TimedStartRide
    \/ \E r \in DOMAIN handlers : TimedEndRideFinish(r)
    \/ AdvancePrompt

SpecPrompt == InitBurst /\ [][NextPrompt]_vars

\* One taxi registered at (0,0) and one request from (0,0) to (5,0) in the
\* channel; nobody calls the server afterwards.
InitE2E ==
    /\ taxis = Add(<<>>, 1, Loc(0, 0))
    /\ nextID = 2
    /\ rideRequests = <<[ClientID |-> 1, StartLocation |-> Loc(0, 0),
                         EndLocation |-> Loc(5, 0)]>>
    /\ nextClientID = 2
    /\ accepted = {1}
    /\ acceptedAt = <<0>>
    /\ closed = FALSE
    /\ shutdown = FALSE
    /\ tickC = FALSE
    /\ rides = <<>>
    /\ nextRideID = 1
    /\ handlers = <<>>
    /\ spc = "recv"
    /\ request = NoRequest
    /\ rideID = 0
    /\ availableTaxis = <<>>
    /\ scanIdx = 0
    /\ closestTaxi = 0
    /\ closestDistance = -1
    /\ duration = 0
    /\ cpc = [c \in Clients |-> "idle"]
    /\ creq = [c \in Clients |-> NoRequest]
    /\ sdpc = "idle"
    /\ sdCalls = 0
    /\ panicked = NoPanic
    /\ now = 0
    /\ lastTick = 0
    /\ processedAt = <<>>
    /\ startedAt = <<>>
    /\ call = NoCall

SpecE2E == InitE2E /\ [][NextBurst]_vars

(***************************************************************************)
(* The TaxiStore on its own: any store of up to MaxTaxis taxis, and direct   *)
(* calls of its methods with known and unknown IDs.                         *)
(***************************************************************************)
\* The locations a caller can pass to UpdateLocation.
Locations == TaxiLocations \cup PickupLocations \cup DropoffLocations

\* The IDs a caller can pass: 0, the registered ones, and some never given out.
CallIDs == 0..(MaxTaxis + 1)

InitStore ==
    /\ \E m \in 0..MaxTaxis :
        /\ \E l \in [1..m -> TaxiLocations], a \in [1..m -> BOOLEAN] :
              taxis = [v \in 1..m |-> [Location |-> l[v], IsAvailable |-> a[v]]]
        /\ nextID = m + 1
    /\ rideRequests = <<>>
    /\ closed = FALSE
    /\ shutdown = FALSE
    /\ tickC = FALSE
    /\ rides = <<>>
    /\ nextRideID = 1
    /\ handlers = <<>>
    /\ spc = "recv"
    /\ request = NoRequest
    /\ rideID = 0
    /\ availableTaxis = <<>>
    /\ scanIdx = 0
    /\ closestTaxi = 0
    /\ closestDistance = -1
    /\ duration = 0
    /\ cpc = [c \in Clients |-> "idle"]
    /\ creq = [c \in Clients |-> NoRequest]
    /\ nextClientID = 1
    /\ accepted = {}
    /\ sdpc = "idle"
    /\ sdCalls = 0
    /\ panicked = NoPanic
    /\ now = 0
    /\ lastTick = 0
    /\ processedAt = <<>>
    /\ startedAt = <<>>
    /\ acceptedAt = <<>>
    /\ call = NoCall

\* A call of TaxiStore.Add.
CallAdd ==
    /\ nextID <= MaxTaxis
    /\ \E location \in TaxiLocations :
        /\ taxis' = Add(taxis, nextID, location)
        /\ call' = [op |-> "Add", id |-> nextID, location |-> location, ok |-> TRUE,
                    before |-> taxis, nextID |-> nextID]
    /\ nextID' = nextID + 1
    /\ UNCHANGED <<serverVars, timeVars>>

\* A call of TaxiStore.SetAvailability, with what it returns.
CallSetAvailability ==
    /\ \E id \in CallIDs, available \in BOOLEAN :
        /\ taxis' = SetAvailability(taxis, id, available)
        /\ call' = [op |-> "SetAvailability", id |-> id, available |-> available,
                    ok |-> exists(taxis, id), before |-> taxis, nextID |-> nextID]
    /\ UNCHANGED <<nextID, serverVars, timeVars>>

\* A call of TaxiStore.UpdateLocation, with what it returns.
CallUpdateLocation ==
    /\ \E id \in CallIDs, location \in Locations :
        /\ taxis' = UpdateLocation(taxis, id, location)
        /\ call' = [op |-> "UpdateLocation", id |-> id, location |-> location,
                    ok |-> exists(taxis, id), before |-> taxis, nextID |-> nextID]
    /\ UNCHANGED <<nextID, serverVars, timeVars>>

\* A call of TaxiManager.UpdateTaxiLocation: an error if UpdateLocation
\* returns false, nil otherwise.
CallUpdateTaxiLocation ==
    /\ \E id \in CallIDs, location \in Locations :
        /\ taxis' = UpdateLocation(taxis, id, location)
        /\ call' = [op |-> "UpdateTaxiLocation", id |-> id, location |-> location,
                    ok |-> exists(taxis, id),
                    err |-> IF ~exists(taxis, id) THEN "not found" ELSE "nil",
                    before |-> taxis, nextID |-> nextID]
    /\ UNCHANGED <<nextID, serverVars, timeVars>>

\* A call of TaxiStore.GetAllAvailable.  The caller keeps the returned slice:
\* it holds the *Taxi pointers of the map, here the taxi IDs, in the order
\* the range over the map delivered them.
CallGetAllAvailable ==
    /\ \E order \in Orders(GetAllAvailable(taxis)) :
        /\ availableTaxis' = order
        /\ call' = [op |-> "GetAllAvailable", ok |-> TRUE, before |-> taxis,
                    nextID |-> nextID]
    /\ UNCHANGED <<storeVars, chanVars, tickC, rideVars, spc, request, rideID, scanIdx,
                   closestTaxi, closestDistance, duration, clientVars, sdVars, panicked,
                   timeVars>>

NextStore ==
    \/ CallGetAllAvailable
    \/ CallAdd
    \/ CallSetAvailability
    \/ CallUpdateLocation
    \/ CallUpdateTaxiLocation

SpecStore == InitStore /\ [][NextStore]_vars

(***************************************************************************)
(* LocationService.CalculateDistance on its own, for every pair of points   *)
(* of the grid.                                                             *)
(***************************************************************************)
Grid == {Loc(x, y) : x \in (-GridMax)..GridMax, y \in (-GridMax)..GridMax}

\* The one call of LocationService.CalculateDistance of a behaviour, with
\* what it returns.
CallCalculateDistance ==
    /\ call = NoCall
    /\ \E from \in Grid, to \in Grid :
        call' = [op |-> "CalculateDistance", from |-> from, to |-> to,
                 result |-> CalculateDistance(from, to)]
    /\ UNCHANGED <<storeVars, serverVars, timeVars>>

NextDistance == CallCalculateDistance

SpecDistance == Init /\ [][NextDistance]_vars

TypeOK ==
    /\ nextID = Len(taxis) + 1
    /\ Len(rideRequests) <= QueueCap
    /\ Len(rides) = Len(handlers)
    /\ nextRideID = Len(rides) + 1

(***************************************************************************)
(* Properties                                                              *)
(***************************************************************************)
\* The ride holds a reservation: it is ASSIGNED or IN_PROGRESS.
Holding(r) == rides[r].Status \in {ASSIGNED, IN_PROGRESS}

\* endRide of the ride has set FINISHED and not yet freed the taxi.
Finishing(r) == rides[r].Status = FINISHED /\ handlers[r].pc \in {"relocate", "free"}

\* AssignClosestTaxi has marked taxi v unavailable and not yet written the ride.
Reserving(v) == spc = "setride" /\ closestTaxi = v

\* C1: in every reachable state no two distinct rides that are ASSIGNED or
\* IN_PROGRESS have the same assigned taxi ID.
C1_NoSharedTaxi ==
    \A r1, r2 \in DOMAIN rides :
        (r1 # r2 /\ Holding(r1) /\ Holding(r2)) => rides[r1].TaxiID # rides[r2].TaxiID

\* Two rides hold reservations at the same time, the second one made while a
\* completion goroutine of the first is pending.
C1_Witness ==
    \E r1, r2 \in DOMAIN rides :
        r1 # r2 /\ rides[r1].Status = IN_PROGRESS /\ Holding(r2)

\* C2 as stated: in every reachable state, the states between the steps of
\* AssignClosestTaxi and of endRide included, a taxi is unavailable if and
\* only if it is the assigned taxi of a ride that is ASSIGNED or IN_PROGRESS.
C2_UnavailableIffHeld ==
    \A v \in DOMAIN taxis :
        (~taxis[v].IsAvailable) <=> (\E r \in DOMAIN rides : Holding(r) /\ rides[r].TaxiID = v)

\* C2 amended: in every reachable state a taxi is unavailable if and only if
\* it is the assigned taxi of a ride that is ASSIGNED or IN_PROGRESS, or
\* AssignClosestTaxi has marked it unavailable and not yet written the ride,
\* or it is the taxi of a FINISHED ride whose endRide has not yet set it
\* available.
C2_UnavailableIffHeldOrInFlight ==
    \A v \in DOMAIN taxis :
        (~taxis[v].IsAvailable) <=>
            \/ \E r \in DOMAIN rides : Holding(r) /\ rides[r].TaxiID = v
            \/ Reserving(v)
            \/ \E r \in DOMAIN rides : Finishing(r) /\ handlers[r].taxi = v

\* Both windows at once: one taxi marked and not yet written into its ride,
\* another one FINISHED and not yet freed.
C2_Witness ==
    /\ spc = "setride"
    /\ ~taxis[closestTaxi].IsAvailable
    /\ \E r \in DOMAIN rides : Finishing(r) /\ ~taxis[handlers[r].taxi].IsAvailable

\* C3: the taxi of an assigned ride is unavailable from the return of
\* AssignClosestTaxi until the ride's own endRide sets it available: it is
\* unavailable in every state in between, the only step that makes it
\* available is the SetAvailability(true) of that ride's endRide, and no other
\* ride is given the taxi while the ride has it.
C3_ReservationHeld ==
    /\ [](\A r \in DOMAIN rides :
            (Holding(r) \/ Finishing(r)) => ~taxis[rides[r].TaxiID].IsAvailable)
    /\ [][\A v \in DOMAIN taxis :
            /\ (~taxis[v].IsAvailable /\ taxis'[v].IsAvailable) =>
                  \E r \in DOMAIN rides :
                      /\ rides[r].TaxiID = v
                      /\ handlers[r].taxi = v
                      /\ handlers[r].pc = "free"
                      /\ handlers'[r].pc = "done"
            /\ \A r \in DOMAIN rides :
                  (rides[r].TaxiID = v /\ (Holding(r) \/ Finishing(r))) =>
                      \A r2 \in DOMAIN rides' :
                          (r2 # r /\ rides'[r2].TaxiID = v) =>
                              (r2 \in DOMAIN rides /\ rides[r2].TaxiID = v)
         ]_vars

\* A ride is IN_PROGRESS while another ride's completion has run to its end
\* and both taxis are registered.
C3_Witness ==
    \E r, r2 \in DOMAIN rides :
        /\ r # r2
        /\ rides[r].Status = IN_PROGRESS
        /\ handlers[r2].pc = "done"
        /\ nextID > MaxTaxis

\* C4: a ride's status moves one step at a time along CREATED, ASSIGNED,
\* IN_PROGRESS, FINISHED, never back and never over a step, a new ride starts
\* CREATED, and a FINISHED ride never changes again.
C4_StatusOneStepForward ==
    [][/\ \A r \in DOMAIN rides :
            /\ r \in DOMAIN rides'
            /\ rides'[r].Status \in {rides[r].Status, rides[r].Status + 1}
            /\ rides'[r].Status <= FINISHED
            /\ rides[r].Status = FINISHED => rides'[r] = rides[r]
       /\ \A r \in (DOMAIN rides') \ (DOMAIN rides) : rides'[r].Status = CREATED
      ]_vars

\* A ride has gone through all four states and its handler has ended.
C4_Witness ==
    \E r \in DOMAIN rides : rides[r].Status = FINISHED /\ handlers[r].pc = "done"

\* C5: when AssignClosestTaxi finds no available taxi it returns nil, leaving
\* the store, the rides, the handlers and the channel as they are; from then
\* on the ride stays CREATED, has no completion goroutine and is never taken
\* up by the scheduler again.
C5_NoTaxiAbandonsRide ==
    [][/\ (spc = "assign" /\ spc' # spc /\ \A v \in DOMAIN taxis : ~taxis[v].IsAvailable) =>
            /\ spc' = "recv"
            /\ rideID' = 0
            /\ rides[rideID].Status = CREATED
            /\ UNCHANGED <<taxis, nextID, rides, handlers, rideRequests>>
       /\ \A r \in DOMAIN rides :
            (rides[r].Status = CREATED /\ r # rideID) =>
                /\ rides'[r] = rides[r]
                /\ handlers'[r] = handlers[r]
                /\ handlers[r].pc = "none"
                /\ rideID' # r
                /\ \A i \in 1..Len(rideRequests') :
                       rideRequests'[i].ClientID # rides[r].ClientID
      ]_vars

\* An abandoned ride is still CREATED while a taxi is available again.
C5_Witness ==
    \E r \in DOMAIN rides :
        /\ rides[r].Status = CREATED
        /\ r # rideID
        /\ \E v \in DOMAIN taxis : taxis[v].IsAvailable
        /\ \E r2 \in DOMAIN rides : rides[r2].Status = FINISHED

\* C6: the taxi AssignClosestTaxi reserves is at minimal Manhattan distance
\* from the pickup among the taxis of its snapshot; with taxis at (0,0) and
\* (10,10) in the snapshot and the pickup at (1,1) it is the one at (0,0).
C6_ClosestTaxiReserved ==
    spc \in {"reserve", "setride"} =>
        LET pickup == rides[rideID].StartLocation
            locations == {taxis[availableTaxis[i]].Location : i \in 1..Len(availableTaxis)}
        IN  /\ \E i \in 1..Len(availableTaxis) : availableTaxis[i] = closestTaxi
            /\ \A l \in locations :
                  CalculateDistance(taxis[closestTaxi].Location, pickup)
                      <= CalculateDistance(l, pickup)
            /\ (locations = {Loc(0, 0), Loc(10, 10)} /\ pickup = Loc(1, 1)) =>
                  taxis[closestTaxi].Location = Loc(0, 0)

\* The example of the claim, with the closer taxi second in the snapshot.
C6_Witness ==
    /\ spc = "setride"
    /\ Len(availableTaxis) = 2
    /\ taxis[availableTaxis[1]].Location = Loc(10, 10)
    /\ taxis[availableTaxis[2]].Location = Loc(0, 0)
    /\ rides[rideID].StartLocation = Loc(1, 1)
    /\ closestTaxi = availableTaxis[2]

\* A call of Shutdown has returned.
ShutdownReturned == sdpc = "returned" \/ sdCalls >= 2

\* C7: a RequestRide call that starts after Shutdown has returned returns
\* false, without a send, and leaves the channel as it is.
C7_RejectedAfterShutdown ==
    [][(ShutdownReturned /\ nextClientID' # nextClientID) =>
            /\ \E c \in Clients : cpc[c] # "send" /\ cpc'[c] = "rejected"
            /\ \A c \in Clients : cpc'[c] # "send"
            /\ rideRequests' = rideRequests
            /\ accepted' = accepted
      ]_vars

\* A call was rejected after Shutdown returned, with a request still queued.
C7_Witness ==
    /\ sdpc = "returned"
    /\ \E c \in Clients : cpc[c] = "rejected"
    /\ Len(rideRequests) > 0

\* C8: a second Shutdown call completes normally (it does not panic) and
\* leaves the flag set, the channel closed and the queued requests as they
\* were.
C8_ShutdownIdempotent ==
    sdCalls >= 2 => panicked # "close of closed channel"

\* C9 as stated: when the channel's buffer is full, RequestRide does not
\* block: no call is ever waiting in the send with the buffer full.
C9_FullQueueFailsFast ==
    \A c \in Clients :
        ~(Running /\ cpc[c] = "send" /\ ~closed /\ Len(rideRequests) >= QueueCap)

\* C9 amended: while the buffer is full (and the channel open) a RequestRide
\* call that has passed the shutdown check stays in the send: it does not
\* return, it keeps its request, and the channel changes only by the
\* scheduler's receive; RequestRide returns false only when the shutdown flag
\* is set.
C9_FullQueueBlocks ==
    /\ [](\A c \in Clients : cpc[c] = "rejected" => shutdown)
    /\ [][\A c \in Clients :
            (cpc[c] = "send" /\ ~closed /\ Len(rideRequests) >= QueueCap) =>
                /\ cpc'[c] = "send"
                /\ creq'[c] = creq[c]
                /\ accepted' = accepted
                /\ rideRequests' \in {rideRequests, Tail(rideRequests)}
         ]_vars

\* A call is blocked in the send on a full buffer.
C9_Witness ==
    \E c \in Clients :
        Running /\ cpc[c] = "send" /\ ~closed /\ Len(rideRequests) = QueueCap

\* Number of places a request with client ID k is at: in the channel, with the
\* scheduler between receive and processRequest, or in a ride.
InChannel(k) == Cardinality({i \in 1..Len(rideRequests) : rideRequests[i].ClientID = k})

Received(k) == IF spc = "tick" /\ request.ClientID = k THEN 1 ELSE 0

RidesOf(k) == Cardinality({r \in DOMAIN rides : rides[r].ClientID = k})

\* C10: every request RequestRide returned true for is at exactly one place:
\* still in the channel, received and waiting for the tick, or in exactly one
\* ride; and nothing else is in the channel or in a ride.
C10_ConsumedExactlyOnce ==
    /\ \A k \in accepted : InChannel(k) + Received(k) + RidesOf(k) = 1
    /\ \A i \in 1..Len(rideRequests) : rideRequests[i].ClientID \in accepted
    /\ \A r \in DOMAIN rides : rides[r].ClientID \in accepted
    /\ spc = "tick" => request.ClientID \in accepted

\* All accepted requests have become rides and the loop has ended.
C10_Witness ==
    /\ Cardinality(accepted) = MaxRequests
    /\ Len(rides) = MaxRequests
    /\ spc = "stopped"

\* C12: the taxi IDs are 1, 2, 3, ... in registration order: every
\* registration takes the ID nextID, which no taxi has yet, moves nextID one
\* up and leaves every registered taxi's record in place.
C12_TaxiIDsUniqueIncreasing ==
    /\ [](DOMAIN taxis = 1..(nextID - 1))
    /\ [][(taxis' # taxis /\ serverVars' = serverVars) =>
            /\ nextID \notin DOMAIN taxis
            /\ DOMAIN taxis' = (DOMAIN taxis) \cup {nextID}
            /\ nextID' = nextID + 1
            /\ \A v \in DOMAIN taxis : taxis'[v] = taxis[v]
         ]_vars

\* Two taxis are registered, the second one while the first is reserved.
C12_Witness ==
    /\ nextID = 3
    /\ DOMAIN taxis = {1, 2}
    /\ ~taxis[1].IsAvailable
    /\ taxis[2].IsAvailable

\* C11: the k-th request placed on the channel carries client ID k here, and
\* it becomes the ride with ID k: rides are created in the order of the
\* sends, with the IDs 1, 2, 3, ..., and a request sent earlier is never
\* processed after one sent later.
C11_FifoAdmission ==
    /\ [](\A r \in DOMAIN rides :
            /\ rides[r].ID = r
            /\ rides[r].ClientID = r
            /\ \A q \in DOMAIN rides : q < r => processedAt[q] <= processedAt[r])
    /\ [](\A i \in DOMAIN rideRequests :
            rideRequests[i].ClientID =
                Len(rides) + (IF spc = "tick" THEN 1 ELSE 0) + i)
    /\ [][Len(rideRequests') > Len(rideRequests) =>
            /\ rideRequests'[Len(rideRequests')].ClientID = Cardinality(accepted) + 1
            /\ accepted' = accepted \cup {Cardinality(accepted) + 1}
         ]_vars

\* Two different requests were in the channel together when the loop
\* started, and both have become rides.
C11_Witness ==
    /\ Len(rides) = 2
    /\ acceptedAt = <<0, 0>>
    /\ rides[1].EndLocation # rides[2].EndLocation
    /\ processedAt[1] < processedAt[2]

\* The steps of the scheduler goroutine and of its ticker.
LoopStep ==
    \/ TickerFire
    \/ StartReceive
    \/ ProcessRequestCreate
    \/ AssignSnapshot
    \/ AssignScan
    \/ AssignReserve
    \/ AssignSetRide
    \/ ProcessRequestDuration
    \/ StartRide

\* C13: once the channel is closed the loop goes on until it has processed
\* the request it holds and every queued one, and only then stops: until it
\* has stopped it always has a next step, and it has not stopped while a
\* request is left in the channel.
C13_LoopDrainsAfterShutdown ==
    /\ (closed /\ spc # "stopped") => ENABLED LoopStep
    /\ spc = "stopped" => rideRequests = <<>>

\* The next step of the completion goroutine of ride r.
HandlerStep(r) ==
    \/ EndRideFinish(r)
    \/ EndRideRelocate(r)
    \/ EndRideFree(r)

\* C16: a ride has a completion goroutine only if it was assigned, an assigned
\* ride that has left startRide has one, and a goroutine that has not reached
\* its end always has a next step, whatever Shutdown does meanwhile.
C16_HandlerRunsToEnd ==
    \A r \in DOMAIN rides :
        /\ handlers[r].pc # "none" => rides[r].TaxiID # 0
        /\ rides[r].Status \in {IN_PROGRESS, FINISHED} => handlers[r].pc # "none"
        /\ handlers[r].pc \in {"sleep", "relocate", "free"} => ENABLED HandlerStep(r)

\* C14: any two consecutive entries of processRequest are at least one
\* TickInterval apart, whatever the arrival pattern.
C14_OnePerInterval ==
    \A r \in DOMAIN processedAt :
        r > 1 => processedAt[r] - processedAt[r - 1] >= TickInterval

\* C15: with N requests in the channel when the loop starts, the N-th one
\* enters processRequest no earlier than (N-1) * TickInterval after the start.
C15_NthNotBefore ==
    \A n \in DOMAIN processedAt :
        acceptedAt[n] = 0 => processedAt[n] >= (n - 1) * TickInterval

\* Two requests were queued at the start and the second one has been
\* processed, at the second tick.
C15_Witness ==
    /\ Len(processedAt) = 2
    /\ acceptedAt = <<0, 0>>
    /\ processedAt[2] = 2 * TickInterval

\* C17: one taxi at (0,0), one request from (0,0) to (5,0): processRequest
\* assigns the ride to that taxi with duration 5, and when the completion
\* goroutine is through the ride is FINISHED and the taxi is at (5,0) and
\* available.
C17_SingleRideEndToEnd ==
    /\ (Len(rides) = 1 /\ spc \in {"duration", "start", "recv", "stopped"}) =>
            /\ rides[1].TaxiID = 1
            /\ rides[1].Status # CREATED
    /\ spc = "start" => duration = 5
    /\ \A r \in DOMAIN handlers :
            /\ handlers[r].pc # "none" => handlers[r].taxi = 1 /\ handlers[r].d = 5
            /\ handlers[r].pc = "done" =>
                    /\ rides[r].Status = FINISHED
                    /\ taxis[1] = [Location |-> Loc(5, 0), IsAvailable |-> TRUE]

\* The ride is over.
C17_Witness ==
    /\ Len(rides) = 1
    /\ rides[1].Status = FINISHED
    /\ handlers[1] = [pc |-> "done", taxi |-> 1, d |-> 5]
    /\ taxis[1].Location = Loc(5, 0)
    /\ taxis[1].IsAvailable

\* Two requests were in the channel when the loop started, there is one taxi,
\* and both requests have become rides.
BackToBack ==
    /\ Cardinality(DOMAIN taxis) = 1
    /\ Len(rides) = 2
    /\ acceptedAt[1] = 0
    /\ acceptedAt[2] = 0

\* C18 as claimed: of two back-to-back rides with one taxi the second is
\* abandoned in every execution.
C18_SecondAlwaysAbandoned ==
    BackToBack => rides[2].Status = CREATED /\ rides[2].TaxiID = 0

\* C18: of two back-to-back rides with one taxi the second is abandoned
\* exactly if the taxi is still unavailable when the snapshot for the second
\* ride is taken, and then it stays CREATED without a taxi; this is the case
\* whenever the snapshot is taken before the sleep of the first ride's
\* goroutine can be over.
C18_SecondAbandonedWhileReserved ==
    /\ [][(BackToBack /\ rideID = 2 /\ spc = "assign" /\ spc' # "assign") =>
            /\ spc' = "recv" <=> ~taxis[1].IsAvailable
            /\ (/\ startedAt[1] >= 0
                /\ now < startedAt[1] + SleepSeconds(handlers[1].d)) => spc' = "recv"
         ]_vars
    /\ [][(BackToBack /\ rideID # 2 /\ rides[2].Status = CREATED) =>
            rides'[2] = rides[2]]_vars

\* The second ride has been abandoned while the first one is in progress.
C18_Witness ==
    /\ BackToBack
    /\ rides[1].Status = IN_PROGRESS
    /\ rides[2].Status = CREATED
    /\ rides[2].TaxiID = 0
    /\ spc = "recv"

\* C19: the duration processRequest hands to startRide is the distance from
\* the taxi to the pickup point, as the taxi stood when it was assigned, plus
\* the distance from the pickup point to the dropoff point; the taxi does not
\* move between its reservation and startRide, and the computation changes
\* neither the store nor the ride.
C19_DurationIsPickupPlusRide ==
    /\ [](spc = "start" =>
            /\ duration =
                 CalculateDistance(taxis[closestTaxi].Location, rides[rideID].StartLocation)
                 + CalculateDistance(rides[rideID].StartLocation, rides[rideID].EndLocation)
            /\ duration =
                 closestDistance
                 + CalculateDistance(rides[rideID].StartLocation, rides[rideID].EndLocation))
    /\ [][(spc = "setride" \/ spc = "duration" \/ spc = "start") =>
            (taxis'[closestTaxi].Location = taxis[closestTaxi].Location)]_vars
    /\ [][(spc = "duration" /\ spc' = "start") =>
            /\ taxis' = taxis
            /\ nextID' = nextID
            /\ rides' = rides]_vars

\* The duration of the second ride of a taxi has been computed, from the
\* place its first ride left it at.
C19_Witness ==
    /\ spc = "start"
    /\ rideID = 2
    /\ rides[1].TaxiID = closestTaxi
    /\ taxis[closestTaxi].Location = rides[1].EndLocation
    /\ duration = 36

\* C20: SetAvailability and UpdateLocation (also through
\* TaxiManager.UpdateTaxiLocation) return false for an ID that is not
\* registered and then leave the store as it was; for a registered ID they
\* return true and change the one field of the one taxi, nothing else, and
\* never nextID.
C20_UnknownIDLeavesStore ==
    call.op \in {"SetAvailability", "UpdateLocation", "UpdateTaxiLocation"} =>
        /\ call.ok <=> call.id \in DOMAIN call.before
        /\ nextID = call.nextID
        /\ ~call.ok => taxis = call.before
        /\ call.ok =>
            /\ DOMAIN taxis = DOMAIN call.before
            /\ \A v \in DOMAIN taxis : v # call.id => taxis[v] = call.before[v]
            /\ IF call.op = "SetAvailability"
               THEN /\ taxis[call.id].IsAvailable = call.available
                    /\ taxis[call.id].Location = call.before[call.id].Location
               ELSE /\ taxis[call.id].Location = call.location
                    /\ taxis[call.id].IsAvailable = call.before[call.id].IsAvailable
        /\ call.op = "UpdateTaxiLocation" => (call.err = "nil" <=> call.ok)

\* SetAvailability has been called with the first ID not yet given out, on
\* a store with taxis.
C20_Witness ==
    /\ call.op = "SetAvailability"
    /\ call.id = nextID
    /\ ~call.ok
    /\ Cardinality(DOMAIN taxis) = MaxTaxis - 1
    /\ call.available

\* C21: the slice GetAllAvailable returns holds exactly the taxis that were
\* available at the call, and what the caller sees through its records
\* stays what it was at the call, whatever the store is told afterwards.
C21_SnapshotIsCopy ==
    /\ [](call.op = "GetAllAvailable" =>
            /\ {availableTaxis[i] : i \in DOMAIN availableTaxis}
                 = {v \in DOMAIN call.before : call.before[v].IsAvailable}
            /\ \A i, j \in DOMAIN availableTaxis :
                 availableTaxis[i] = availableTaxis[j] => i = j)
    /\ [][availableTaxis' = availableTaxis =>
            \A i \in DOMAIN availableTaxis :
                taxis'[availableTaxis[i]] = taxis[availableTaxis[i]]]_vars

\* C22: CalculateDistance gives the same in both directions, 0 for a point
\* and itself, never a negative number, and 7 from (0,0) to (3,4).
C22_DistanceLaws ==
    call.op = "CalculateDistance" =>
        /\ call.result = CalculateDistance(call.to, call.from)
        /\ call.from = call.to => call.result = 0
        /\ call.result >= 0
        /\ (call.from = Loc(0, 0) /\ call.to = Loc(3, 4)) => call.result = 7

\* The distance from (0,0) to (3,4) has been computed.
C22_Witness ==
    /\ call.op = "CalculateDistance"
    /\ call.from = Loc(0, 0)
    /\ call.to = Loc(3, 4)
    /\ call.result = 7

\* The rides taxi v was assigned to.
Served(v) == {r \in DOMAIN rides : rides[r].TaxiID = v}

\* The ride taxi v was assigned to last.
LastRide(v) == CHOOSE r \in Served(v) : \A q \in Served(v) : q <= r

\* C23: endRide sets FINISHED, then moves the taxi to the dropoff point, then
\* makes it available; so a taxi that is available and has served a ride
\* stands at the dropoff point of the last ride it served.
C23_FreedTaxiAtDropoff ==
    /\ \A r \in DOMAIN handlers :
        /\ handlers[r].pc \in {"relocate", "free", "done"} => rides[r].Status = FINISHED
        /\ handlers[r].pc = "relocate" => ~taxis[handlers[r].taxi].IsAvailable
        /\ handlers[r].pc = "free" =>
            /\ ~taxis[handlers[r].taxi].IsAvailable
            /\ taxis[handlers[r].taxi].Location = rides[r].EndLocation
    /\ \A v \in DOMAIN taxis :
        (taxis[v].IsAvailable /\ Served(v) # {}) =>
            taxis[v].Location = rides[LastRide(v)].EndLocation

\* A taxi went from (0,0) over the pickup point to (10,10), is free again,
\* and the scan of the next assignment is looking at it.
C23_Witness ==
    /\ Len(handlers) >= 1
    /\ handlers[1] = [pc |-> "done", taxi |-> 1, d |-> 20]
    /\ taxis[1] = [Location |-> Loc(10, 10), IsAvailable |-> TRUE]
    /\ spc = "scan"
    /\ availableTaxis[scanIdx] = 1

\* C24: there is one AssignClosestTaxi at a time, for the newest ride; from
\* its snapshot to its SetAvailability(false) every taxi of the snapshot
\* stays available, so the reservation takes a taxi that is available at
\* that moment, whatever completion goroutines and registrations do between.
C24_ReservationOnAvailableTaxi ==
    /\ [](spc \in {"assign", "scan", "reserve", "setride"} => rideID = nextRideID - 1)
    /\ [](spc \in {"scan", "reserve"} =>
            \A i \in DOMAIN availableTaxis :
                /\ availableTaxis[i] \in DOMAIN taxis
                /\ taxis[availableTaxis[i]].IsAvailable)
    /\ [](spc = "reserve" => closestTaxi \in DOMAIN taxis /\ taxis[closestTaxi].IsAvailable)
    /\ [][(spc = "reserve" /\ spc' = "setride") =>
            /\ taxis[closestTaxi].IsAvailable
            /\ ~taxis'[closestTaxi].IsAvailable
            /\ \A v \in DOMAIN taxis : v # closestTaxi => taxis'[v] = taxis[v]]_vars

\* A taxi has just been reserved while the completion goroutine of an
\* earlier ride is between FINISHED and freeing another taxi.
C24_Witness ==
    /\ spc = "setride"
    /\ ~taxis[closestTaxi].IsAvailable
    /\ \E r \in DOMAIN handlers :
        /\ handlers[r].pc \in {"relocate", "free"}
        /\ handlers[r].taxi # closestTaxi

\* C25: RegisterTaxi can always be called and only adds: one new taxi,
\* available, at one of the locations given, every other taxi as it was; no
\* taxi ever disappears, GetTaxiCount is the number of registrations made
\* and never goes down, and GetAvailableTaxiCount is at most GetTaxiCount.
C25_RegisterOnlyAdds ==
    /\ [](/\ GetTaxiCount = nextID - 1
          /\ GetAvailableTaxiCount <= GetTaxiCount)
    /\ []((Running /\ nextID <= MaxTaxis) => ENABLED RegisterTaxi)
    /\ [][/\ GetTaxiCount' >= GetTaxiCount
          /\ DOMAIN taxis \subseteq DOMAIN taxis']_vars
    /\ [][(DOMAIN taxis' # DOMAIN taxis) =>
            /\ GetTaxiCount' = GetTaxiCount + 1
            /\ nextID' = nextID + 1
            /\ taxis'[nextID].IsAvailable
            /\ taxis'[nextID].Location \in TaxiLocations
            /\ \A v \in DOMAIN taxis : taxis'[v] = taxis[v]]_vars

\* The second taxi was registered and both taxis are on rides.
C25_Witness ==
    /\ GetTaxiCount = 2
    /\ GetAvailableTaxiCount = 0
    /\ Len(rides) = 2
    /\ rides[1].Status = IN_PROGRESS
    /\ rides[2].Status = IN_PROGRESS

\* C26: with RequestRide and Shutdown running side by side, no caller of
\* RequestRide is left at its send when the channel has been closed, and no
\* send happens on the closed channel.
C26_NoSendAfterClose ==
    /\ panicked # "send on closed channel"
    /\ \A c \in Clients : closed => cpc[c] # "send"

\* C27: a ride has TaxiID 0 exactly while it is CREATED; any other TaxiID is
\* the ID of a registered taxi, 0 is never the ID of a taxi, and a TaxiID
\* that has been set stays.
C27_TaxiIDSetOnce ==
    /\ [](/\ 0 \notin DOMAIN taxis
          /\ \A r \in DOMAIN rides :
                /\ rides[r].TaxiID = 0 <=> rides[r].Status = CREATED
                /\ rides[r].TaxiID # 0 => rides[r].TaxiID \in DOMAIN taxis)
    /\ [][\A r \in DOMAIN rides :
            rides[r].TaxiID # 0 => rides'[r].TaxiID = rides[r].TaxiID]_vars

\* The first ride is over and has kept the ID of its taxi; the second ride
\* was abandoned and has none.
C27_Witness ==
    /\ Len(rides) = 2
    /\ rides[1].Status = FINISHED
    /\ rides[1].TaxiID = 1
    /\ rides[2].Status = CREATED
    /\ rides[2].TaxiID = 0
    /\ spc = "recv"

\* The next step of the scheduler goroutine reads taxi v's Location through
\* its pointer, outside the store's lock: the scan of the snapshot, or
\* CalculateRideDuration.
ReadsLocation(v) ==
    \/ spc = "scan" /\ availableTaxis[scanIdx] = v
    \/ spc = "duration" /\ closestTaxi = v

\* The next step of some completion goroutine is UpdateLocation on taxi v.
WritesLocation(v) ==
    \E r \in DOMAIN handlers : handlers[r].pc = "relocate" /\ handlers[r].taxi = v

\* The next step of the scheduler goroutine writes Status or TaxiID of ride r.
LoopWritesRide(r) == rideID = r /\ spc \in {"setride", "start"}

\* C28: no unlocked read of a taxi's Location is pending together with an
\* UpdateLocation of the same taxi; and once a ride has its completion
\* goroutine, the scheduler loop has no write to it left, and the only write
\* to it is the FINISHED of endRide, in its ride.mu critical section.
C28_NoDataRace ==
    /\ [](\A v \in DOMAIN taxis : ~(ReadsLocation(v) /\ WritesLocation(v)))
    /\ [](\A r \in DOMAIN rides : handlers[r].pc # "none" => ~LoopWritesRide(r))
    /\ [][\A r \in DOMAIN rides :
            (handlers[r].pc # "none" /\ rides'[r] # rides[r]) =>
                /\ handlers[r].pc = "sleep"
                /\ handlers'[r].pc = "relocate"
                /\ rides'[r] = [rides[r] EXCEPT !.Status = FINISHED]]_vars

\* The scan is about to read the Location of one taxi while a completion
\* goroutine is about to write the Location of the other.
C28_Witness ==
    /\ spc = "scan"
    /\ \E v \in DOMAIN taxis :
        /\ WritesLocation(v)
        /\ ~ReadsLocation(v)
        /\ ReadsLocation(availableTaxis[scanIdx])

====
